---- MODULE Spec2Model ----
(***************************************************************************)
(* Model of package acquisition (acquisition/acquisition.go): the life     *)
(* cycle of one Acquisition (New, Initialize, Complete), the staging of    *)
(* its directories, the system information probe, and the writers that     *)
(* put files beneath StoragePath (saveOutput, HashFiles, StoreInfo).       *)
(*                                                                         *)
(* Strings that the code only copies or concatenates are TLA+ strings.     *)
(* Strings that the code parses (the output of the shell command env) are  *)
(* sequences of tokens; paths are sequences of path components, so that    *)
(* filepath.Join is Append and "beneath" is "has as a prefix".             *)
(***************************************************************************)
EXTENDS Naturals, Integers, Sequences, FiniteSets, TLC

VARIABLES
    acq,        \* the fields of the Acquisition struct
    created,    \* TRUE once New has returned a non-nil *Acquisition
    fs,         \* the local filesystem: path -> [kind, content, ok]
    manifest,   \* the rows that hashes.csv holds on disk, in order
    quota,      \* how many manifest rows the volume has room for
    now,        \* the wall clock read by time.Now()
    devEnv,     \* what the shell command env prints on the connected device
    collectors, \* collectors[h]: how often Clean ran on collector handle h
    logSink,    \* the path given to log.EnableFileLog, <<>> when not enabled
    logFile,    \* the lines that the log sink wrote to its file, in order
    staged,     \* the directories that os.Mkdir of createFolders created
    trace,      \* the external calls made by the last operation, in order
    ret,        \* the last operation and the error it returned ("" is nil)
    walk,       \* what the last filepath.Walk did: its error, the tree at start
    runs        \* the row sets of the HashFiles runs since the tree was last
                \* changed by anything else (at most the last two)

vars == <<acq, created, fs, manifest, quota, now, devEnv, collectors, logSink,
          logFile, staged, trace, ret, walk, runs>>

----------------------------------------------------------------------------
(* Bounds of the model                                                     *)

MaxTime == 2
MaxHandles == 2
MaxCleans == 2
MaxQuota == 3
BufCap == 1
MaxDumpLen == 5
MaxLog == 2

----------------------------------------------------------------------------
(* Paths                                                                   *)

\* saveRuntime.GetExecutableDirectory()
ExecDir == <<"exe">>

UUIDs == {"u1"}

\* filepath.Join(dir, name): empty elements are ignored
Join(dir, name) == IF name = "" THEN dir ELSE Append(dir, name)

Parent(p) == SubSeq(p, 1, Len(p) - 1)

IsPrefix(p, q) == Len(p) <= Len(q) /\ SubSeq(q, 1, Len(p)) = p

\* the path as the string the code holds
RECURSIVE PathStr(_)
PathStr(p) ==
    IF p = <<>> THEN ""
    ELSE IF Len(p) = 1 THEN p[1]
    ELSE PathStr(Parent(p)) \o "/" \o p[Len(p)]

\* byte order of the entry names the model uses (filepath.Walk sorts names)
Lexical ==
    <<"a", "acquisition.json", "apks", "command.log", "d", "hashes.csv", "logs", "u1", "z">>

Dir == [kind |-> "dir", content |-> "", ok |-> TRUE]

File(c) == [kind |-> "file", content |-> c, ok |-> TRUE]

\* a directory in which a new entry can be made: the working directory
\* (the empty relative path) or an existing directory
IsDirPath(f, p) == p = <<>> \/ (p \in DOMAIN f /\ f[p].kind = "dir")

Put(f, p, e) == [q \in DOMAIN f \cup {p} |-> IF q = p THEN e ELSE f[q]]

\* os.Mkdir: fails when the path exists, the parent is missing, or the
\* system refuses (permitted = FALSE)
MkdirOK(f, p, permitted) == permitted /\ p \notin DOMAIN f /\ IsDirPath(f, Parent(p))

\* os.Create / os.WriteFile open: fails when the parent is missing or the
\* path is not a regular file
CreateOK(f, p) ==
    /\ p # <<>>
    /\ IsDirPath(f, Parent(p))
    /\ p \in DOMAIN f => f[p].kind = "file"

----------------------------------------------------------------------------
(* The Acquisition struct                                                  *)

Fallback == <<"/data/local/tmp">>

ZeroAcq ==
    [UUID |-> "", ADB |-> 0, StoragePath |-> <<>>, APKSPath |-> <<>>, LogsPath |-> <<>>,
     Started |-> 0, Completed |-> 0, Collector |-> 0, TmpDir |-> <<>>, Cpu |-> ""]

Ev(call, path, ok, a1, a2) ==
    [call |-> call, path |-> path, ok |-> ok, a1 |-> a1, a2 |-> a2]

NoWalk == [ran |-> FALSE, err |-> "", flushErr |-> "", start |-> [p \in {} |-> Dir], visited |-> <<>>]

Ret(op, err) == [op |-> op, err |-> err]

RECURSIVE TokStr(_)
TokStr(s) == IF s = <<>> THEN "" ELSE Head(s) \o TokStr(Tail(s))

----------------------------------------------------------------------------
(* Logger: log.Info and log.Debugf write a line to the file sink once      *)
(* log.EnableFileLog(log.DEBUG, path) has enabled it                       *)

\* the lines of the log file after the lines new were logged
Logged(sink, lines, new) == IF sink = <<>> THEN lines ELSE lines \o new

\* filesystem f with the log file holding these lines
WithLog(f, sink, lines) == IF sink = <<>> THEN f ELSE Put(f, sink, File(TokStr(lines)))

----------------------------------------------------------------------------
(* System information probe                                                *)

Newline == "\n"

\* the white space that strings.TrimSpace removes
Space == {" ", "\r", "\t"}

TMPDIR == <<"TMPDIR=">>

\* strings.Split(s, "\n"): the pieces between the separators, empty pieces kept
RECURSIVE Split(_)
Split(s) ==
    IF \A i \in 1..Len(s) : s[i] # Newline THEN <<s>>
    ELSE LET i == CHOOSE k \in 1..Len(s) :
                      s[k] = Newline /\ \A j \in 1..(k - 1) : s[j] # Newline
         IN  <<SubSeq(s, 1, i - 1)>> \o Split(SubSeq(s, i + 1, Len(s)))

\* strings.TrimSpace(s)
RECURSIVE TrimSpace(_)
TrimSpace(s) ==
    IF s = <<>> THEN s
    ELSE IF s[1] \in Space THEN TrimSpace(Tail(s))
    ELSE IF s[Len(s)] \in Space THEN TrimSpace(SubSeq(s, 1, Len(s) - 1))
    ELSE s

\* strings.HasPrefix(s, prefix)
HasPrefix(s, prefix) == Len(s) >= Len(prefix) /\ SubSeq(s, 1, Len(prefix)) = prefix

\* strings.TrimPrefix(s, prefix)
TrimPrefix(s, prefix) ==
    IF HasPrefix(s, prefix) THEN SubSeq(s, Len(prefix) + 1, Len(s)) ELSE s

\* the loop over the lines of the dump: every matching line assigns tmpFolder
RECURSIVE ScanLines(_, _)
ScanLines(lines, tmpFolder) ==
    IF lines = <<>> THEN tmpFolder
    ELSE LET line == TrimSpace(Head(lines))
         IN  ScanLines(Tail(lines),
                       IF HasPrefix(line, TMPDIR) THEN TrimPrefix(line, TMPDIR)
                       ELSE tmpFolder)

\* ResolveTmpDir without the fallback for an empty tmpFolder
ResolveTmpDirNoFallback(out) == ScanLines(Split(out), <<>>)

\* the temp folder resolved from the output of env
ResolveTmpDir(out) ==
    LET tmpFolder == ScanLines(Split(out), <<>>)
    IN  IF tmpFolder = <<>> THEN Fallback ELSE tmpFolder

ShellErr == "exit status 1"

\* a.ADB.Shell(cmd): its output, or an error
ShellResult(ok, out) == [ok |-> ok, out |-> out, err |-> IF ok THEN "" ELSE ShellErr]

\* GetSystemInformation that clears TmpDir when the env command fails
GetSystemInformationResets(a, cpu, env) ==
    LET e1 == Ev("Shell", <<>>, cpu.ok, "getprop ro.product.cpu.abi", "")
        e2 == Ev("Shell", <<>>, env.ok, "env", "")
        a1 == [a EXCEPT !.Cpu = cpu.out]
        l1 == "CPU architecture: " \o cpu.out \o "\n"
        l2 == "Found temp folder/ " \o TokStr(ResolveTmpDir(env.out)) \o "\n"
    IN  IF ~cpu.ok THEN [acq |-> a, err |-> cpu.err, trace |-> <<e1>>, logs |-> <<>>]
        ELSE IF ~env.ok
        THEN [acq |-> [a1 EXCEPT !.TmpDir = <<>>],
              err |-> "failed to run adb shell env: " \o env.err,
              trace |-> <<e1, e2>>, logs |-> <<l1>>]
        ELSE [acq |-> [a1 EXCEPT !.TmpDir = ResolveTmpDir(env.out)],
              err |-> "",
              trace |-> <<e1, e2>>, logs |-> <<l1, l2>>]

\* GetSystemInformation on a, with the results of the two shell commands.
\* The result holds the fields after the call, the returned error and the
\* calls made.
GetSystemInformation(a, cpu, env) ==
    LET e1 == Ev("Shell", <<>>, cpu.ok, "getprop ro.product.cpu.abi", "")
        e2 == Ev("Shell", <<>>, env.ok, "env", "")
        a1 == [a EXCEPT !.Cpu = cpu.out]
        l1 == "CPU architecture: " \o cpu.out \o "\n"
        l2 == "Found temp folder/ " \o TokStr(ResolveTmpDir(env.out)) \o "\n"
    IN  IF ~cpu.ok THEN [acq |-> a, err |-> cpu.err, trace |-> <<e1>>, logs |-> <<>>]
        ELSE IF ~env.ok
        THEN [acq |-> a1,
              err |-> "failed to run adb shell env: " \o env.err,
              trace |-> <<e1, e2>>, logs |-> <<l1>>]
        ELSE [acq |-> [a1 EXCEPT !.TmpDir = ResolveTmpDir(env.out)],
              err |-> "",
              trace |-> <<e1, e2>>, logs |-> <<l1, l2>>]

----------------------------------------------------------------------------
(* Filesystem staging                                                      *)

\* createFolders that removes StoragePath again when a later Mkdir fails
createFoldersRollback(a, f, perm) ==
    LET sp == Join(ExecDir, a.UUID)
        ap == Join(sp, "apks")
        lp == Join(sp, "logs")
        a3 == [a EXCEPT !.StoragePath = sp, !.APKSPath = ap, !.LogsPath = lp]
        ok1 == MkdirOK(f, sp, perm >= 1)
        f3 == Put(Put(Put(f, sp, Dir), ap, Dir), lp, Dir)
        m1 == Ev("Mkdir", sp, ok1, "", "")
        m2 == Ev("Mkdir", ap, perm >= 2, "", "")
        m3 == Ev("Mkdir", lp, perm >= 3, "", "")
    IN  IF ~ok1
        THEN [acq |-> a3, fs |-> f, err |-> "mkdir " \o PathStr(sp), made |-> {},
              trace |-> <<m1>>]
        ELSE IF perm < 2
        THEN [acq |-> a3, fs |-> f, err |-> "mkdir " \o PathStr(ap), made |-> {},
              trace |-> <<m1, m2>>]
        ELSE IF perm < 3
        THEN [acq |-> a3, fs |-> f, err |-> "mkdir " \o PathStr(lp), made |-> {},
              trace |-> <<m1, m2, m3>>]
        ELSE [acq |-> a3, fs |-> f3, err |-> "", made |-> {sp, ap, lp},
              trace |-> <<m1, m2, m3>>]

\* createFolders that takes an existing directory for its own, as
\* os.MkdirAll would
createFoldersMerge(a, f, perm) ==
    LET sp == Join(ExecDir, a.UUID)
        ap == Join(sp, "apks")
        lp == Join(sp, "logs")
        a3 == [a EXCEPT !.StoragePath = sp, !.APKSPath = ap, !.LogsPath = lp]
        f3 == Put(Put(Put(f, sp, Dir), ap, Dir), lp, Dir)
        m1 == Ev("Mkdir", sp, TRUE, "", "")
        m2 == Ev("Mkdir", ap, TRUE, "", "")
        m3 == Ev("Mkdir", lp, TRUE, "", "")
    IN  [acq |-> a3, fs |-> f3, err |-> "", made |-> {sp, ap, lp},
         trace |-> <<m1, m2, m3>>]

\* createFolders on a and filesystem f; the system permits the first perm
\* of the Mkdir calls it is asked for.
createFolders(a, f, perm) ==
    LET sp == Join(ExecDir, a.UUID)
        a1 == [a EXCEPT !.StoragePath = sp]
        ok1 == MkdirOK(f, sp, perm >= 1)
        f1 == Put(f, sp, Dir)
        ap == Join(sp, "apks")
        a2 == [a1 EXCEPT !.APKSPath = ap]
        ok2 == MkdirOK(f1, ap, perm >= 2)
        f2 == Put(f1, ap, Dir)
        lp == Join(sp, "logs")
        a3 == [a2 EXCEPT !.LogsPath = lp]
        ok3 == MkdirOK(f2, lp, perm >= 3)
        f3 == Put(f2, lp, Dir)
        m1 == Ev("Mkdir", sp, ok1, "", "")
        m2 == Ev("Mkdir", ap, ok2, "", "")
        m3 == Ev("Mkdir", lp, ok3, "", "")
    IN  IF ~ok1
        THEN [acq |-> a1, fs |-> f, err |-> "mkdir " \o PathStr(sp), made |-> {},
              trace |-> <<m1>>]
        ELSE IF ~ok2
        THEN [acq |-> a2, fs |-> f1, err |-> "mkdir " \o PathStr(ap), made |-> {sp},
              trace |-> <<m1, m2>>]
        ELSE IF ~ok3
        THEN [acq |-> a3, fs |-> f2, err |-> "mkdir " \o PathStr(lp), made |-> {sp, ap},
              trace |-> <<m1, m2, m3>>]
        ELSE [acq |-> a3, fs |-> f3, err |-> "", made |-> {sp, ap, lp},
              trace |-> <<m1, m2, m3>>]

----------------------------------------------------------------------------
(* Artifact integrity recorder                                             *)

\* hashes.FileSHA256 of a file with this content: a digest that differs
\* whenever the content differs
SHA256(content) == "sha256(" \o content \o ")"

\* the bytes of a csv file holding these rows
RECURSIVE CsvEncode(_)
CsvEncode(rows) ==
    IF rows = <<>> THEN ""
    ELSE PathStr(rows[1][1]) \o "," \o rows[1][2] \o "\n" \o CsvEncode(Tail(rows))

\* readDirNames: the entries of directory p, sorted by name
RECURSIVE ChildrenFrom(_, _, _)
ChildrenFrom(f, p, i) ==
    IF i > Len(Lexical) THEN <<>>
    ELSE (IF Join(p, Lexical[i]) \in DOMAIN f THEN <<Join(p, Lexical[i])>> ELSE <<>>)
         \o ChildrenFrom(f, p, i + 1)

\* the order in which filepath.Walk hands the entries below p to its
\* callback: p itself, then, when p is a directory that can be read, the
\* subtree of each entry in turn
RECURSIVE Visits(_, _)
RECURSIVE VisitAll(_, _)
Visits(f, p) ==
    <<p>> \o (IF f[p].kind = "dir" /\ f[p].ok THEN VisitAll(f, ChildrenFrom(f, p, 1))
              ELSE <<>>)
VisitAll(f, ps) ==
    IF ps = <<>> THEN <<>> ELSE Visits(f, Head(ps)) \o VisitAll(f, Tail(ps))

\* The csv writer over the manifest file: buf is what the buffered writer
\* holds, disk what reached the file, werr the writer's sticky error; err is
\* the error of the walk, visited the files hashed and the content hashed.
NewWriter == [buf |-> <<>>, disk |-> <<>>, werr |-> "", err |-> "", visited |-> <<>>]

\* bufio.Writer.Flush with room for q rows in the file: writes what fits; a
\* short write is an error that sticks
Flush(w, q) ==
    IF w.werr # "" THEN w
    ELSE LET free == IF q > Len(w.disk) THEN q - Len(w.disk) ELSE 0
             n == IF Len(w.buf) <= free THEN Len(w.buf) ELSE free
         IN  [w EXCEPT !.disk = @ \o SubSeq(w.buf, 1, n),
                       !.buf = SubSeq(w.buf, n + 1, Len(w.buf)),
                       !.werr = IF n < Len(w.buf) THEN "no space left on device" ELSE ""]

\* csvWriter.Write(row): the row goes to the buffer, which is flushed first
\* when it is full; the error of that flush is the error of Write
CsvWrite(w, row, q) ==
    LET w1 == IF Len(w.buf) >= BufCap THEN Flush(w, q) ELSE w
    IN  IF w1.werr # "" THEN [w1 EXCEPT !.err = w1.werr]
        ELSE [w1 EXCEPT !.buf = Append(@, row)]

\* the callback of filepath.Walk in HashFiles, on entry p; hp is the path of
\* the manifest file
Callback(f, hp, q, w, p) ==
    LET e == f[p]
    IN  IF e.kind = "dir"
        THEN IF e.ok THEN w ELSE [w EXCEPT !.err = "open " \o PathStr(p)]
        ELSE IF ~e.ok THEN [w EXCEPT !.err = "open " \o PathStr(p)]
        ELSE LET content == IF p = hp THEN CsvEncode(w.disk) ELSE e.content
                 w1 == CsvWrite(w, <<p, SHA256(content)>>, q)
             IN  [w1 EXCEPT !.visited = Append(@, <<p, content>>)]

RECURSIVE WalkFn(_, _, _, _, _)
WalkFn(f, hp, q, w, ps) ==
    IF ps = <<>> \/ w.err # "" THEN w
    ELSE WalkFn(f, hp, q, Callback(f, hp, q, w, Head(ps)), Tail(ps))

\* filepath.Walk(root, callback): the first error ends the walk
Walk(f, root, hp, q, w) ==
    IF root \notin DOMAIN f THEN [w EXCEPT !.err = "lstat " \o PathStr(root)]
    ELSE WalkFn(f, hp, q, w, Visits(f, root))

\* HashFiles on a, filesystem f, with room for q manifest rows
HashFilesCall(a, f, q) ==
    LET hp == Join(a.StoragePath, "hashes.csv")
        c == Ev("Create", hp, CreateOK(f, hp), "", "")
    IN  IF ~CreateOK(f, hp)
        THEN [fs |-> f, err |-> "open " \o PathStr(hp), trace |-> <<c>>,
              wrote |-> FALSE, rows |-> <<>>, walk |-> NoWalk]
        ELSE LET f0 == Put(f, hp, File(""))
                 w1 == Walk(f0, a.StoragePath, hp, q, NewWriter)
                 w2 == Flush(w1, q)
             IN  [fs |-> Put(f0, hp, File(CsvEncode(w2.disk))),
                  err |-> "",
                  trace |-> <<c>>,
                  wrote |-> TRUE,
                  rows |-> w2.disk,
                  walk |-> [ran |-> TRUE, err |-> w1.err, flushErr |-> w2.werr,
                            start |-> f, visited |-> w1.visited]]

----------------------------------------------------------------------------
(* Writers beneath StoragePath                                             *)

\* saveOutput(fileName, output); wrOK: the write of the output succeeds
saveOutputCall(a, f, fileName, output, wrOK) ==
    LET p == Join(a.StoragePath, fileName)
        c == Ev("Create", p, CreateOK(f, p), "", "")
    IN  IF ~CreateOK(f, p)
        THEN [fs |-> f, trace |-> <<c>>,
              err |-> "failed to create " \o fileName \o " file: open " \o PathStr(p)]
        ELSE IF ~wrOK
        THEN [fs |-> Put(f, p, File("")), trace |-> <<c>>,
              err |-> "failed to write output to " \o fileName \o ": input/output error"]
        ELSE [fs |-> Put(f, p, File(output)), trace |-> <<c>>, err |-> ""]

\* the fields of the struct, in the order of their declaration
Fields ==
    <<"UUID", "ADB", "StoragePath", "APKSPath", "LogsPath", "Started", "Completed",
      "Collector", "TmpDir", "Cpu">>

\* the json tags with the Collector field left out of the snapshot
TagsWithoutCollector ==
    [UUID |-> "uuid", ADB |-> "-", StoragePath |-> "storage_path",
     APKSPath |-> "apks_path", LogsPath |-> "logs_path", Started |-> "started",
     Completed |-> "completed", Collector |-> "-", TmpDir |-> "tmp_dir", Cpu |-> "cpu"]

\* the json tags of the fields; "-" keeps a field out of the snapshot
Tags ==
    [UUID |-> "uuid", ADB |-> "-", StoragePath |-> "storage_path",
     APKSPath |-> "apks_path", LogsPath |-> "logs_path", Started |-> "started",
     Completed |-> "completed", Collector |-> "collector", TmpDir |-> "tmp_dir",
     Cpu |-> "cpu"]

\* time.Time.MarshalJSON: the time in RFC 3339; the zero time is in year 1
Rfc3339(t) ==
    IF t = 0 THEN "0001-01-01T00:00:00Z"
    ELSE "2022-03-01T00:00:0" \o ToString(t) \o "Z"

\* a json string: v is the Go string, text what the encoder writes for it
JsonString(v, text) == [t |-> "string", v |-> v, text |-> "\"" \o text \o "\""]

JsonNull == [t |-> "null", v |-> "", text |-> "null"]

\* the encoding of a *adb.Collector: null for nil, else the object with the
\* collector's fields
CollectorJson(h) ==
    IF h = 0 THEN JsonNull
    ELSE [t |-> "object", v |-> ToString(h), text |-> "{collector " \o ToString(h) \o "}"]

\* the json value of field f of a
Encode(a, f) ==
    IF f \in {"UUID", "Cpu"} THEN JsonString(a[f], a[f])
    ELSE IF f \in {"StoragePath", "APKSPath", "LogsPath"}
    THEN JsonString(a[f], PathStr(a[f]))
    ELSE IF f = "TmpDir" THEN JsonString(a[f], TokStr(a[f]))
    ELSE IF f \in {"Started", "Completed"}
    THEN JsonString(Rfc3339(a[f]), Rfc3339(a[f]))
    ELSE CollectorJson(a[f])

\* the members of the json object for a: one for each field whose tag is
\* not "-", in the order of the fields
RECURSIVE MembersFrom(_, _)
MembersFrom(a, i) ==
    IF i > Len(Fields) THEN <<>>
    ELSE (IF Tags[Fields[i]] = "-" THEN <<>>
          ELSE << <<Tags[Fields[i]], Encode(a, Fields[i])>> >>)
         \o MembersFrom(a, i + 1)

JsonMembers(a) == MembersFrom(a, 1)

\* the indented text of a json object with these members
RECURSIVE JsonText(_)
JsonText(ms) ==
    IF ms = <<>> THEN "}"
    ELSE "\n \"" \o ms[1][1] \o "\": " \o ms[1][2].text
         \o (IF Len(ms) > 1 THEN "," ELSE "\n") \o JsonText(Tail(ms))

\* json.MarshalIndent(a, "", " ")
JsonMarshal(a) == "{" \o JsonText(JsonMembers(a))

\* StoreInfo; wrOK: the write of the file succeeds
StoreInfoCall(a, f, wrOK) ==
    LET p == Join(a.StoragePath, "acquisition.json")
        c == Ev("WriteFile", p, CreateOK(f, p) /\ wrOK, "", "")
    IN  IF ~CreateOK(f, p)
        THEN [fs |-> f, trace |-> <<c>>,
              err |-> "failed to write acquisition details to file: open " \o PathStr(p)]
        ELSE IF ~wrOK
        THEN [fs |-> Put(f, p, File("")), trace |-> <<c>>,
              err |-> "failed to write acquisition details to file: input/output error"]
        ELSE [fs |-> Put(f, p, File(JsonMarshal(a))), trace |-> <<c>>, err |-> ""]

----------------------------------------------------------------------------
(* Lifecycle controller                                                    *)

AdbErr == "adb: no devices/emulators found"

\* initADB: adb.New, then ADB.GetState
initADB(adbOK, stateOK) ==
    LET n == Ev("adb.New", <<>>, adbOK, "", "")
        g == Ev("GetState", <<>>, stateOK, "", "")
    IN  IF ~adbOK
        THEN [err |-> "failed to initialize adb: " \o AdbErr, trace |-> <<n>>]
        ELSE IF ~stateOK
        THEN [err |-> "failed to get adb state (are you sure a device is connected?): "
                      \o AdbErr,
              trace |-> <<n, g>>]
        ELSE [err |-> "", trace |-> <<n, g>>]

\* New that hands out the Acquisition it built so far when initADB failed
NewCallPartly(u, t, adbOK, stateOK) ==
    LET a == [ZeroAcq EXCEPT !.UUID = u, !.Started = t, !.ADB = IF adbOK THEN 1 ELSE 0]
        i == initADB(adbOK, stateOK)
    IN  [ok |-> TRUE, acq |-> a, trace |-> i.trace,
         err |-> IF i.err # "" THEN "failed to initialize adb: " \o i.err ELSE ""]

\* New() with uuid u at time t: ok is FALSE when nil is returned
NewCall(u, t, adbOK, stateOK) ==
    LET a == [ZeroAcq EXCEPT !.UUID = u, !.Started = t, !.ADB = 1]
        i == initADB(adbOK, stateOK)
    IN  IF i.err # ""
        THEN [ok |-> FALSE, acq |-> ZeroAcq, trace |-> i.trace,
              err |-> "failed to initialize adb: " \o i.err]
        ELSE [ok |-> TRUE, acq |-> a, trace |-> i.trace, err |-> ""]

\* Initialize that enables the log sink and returns nil whatever
\* createFolders returned
InitializeCallKeepsGoing(a, f, cpu, env, collOK, h, perm) ==
    LET g == GetSystemInformation(a, cpu, env)
        gc == Ev("GetCollector", <<>>, collOK, TokStr(g.acq.TmpDir), g.acq.Cpu)
        cf == createFolders([g.acq EXCEPT !.Collector = h], f, perm)
        logPath == Join(cf.acq.StoragePath, "command.log")
        lg == Ev("EnableFileLog", logPath, TRUE, "", "")
    IN  IF g.err # ""
        THEN [acq |-> g.acq, fs |-> f, err |-> g.err, trace |-> g.trace,
              logs |-> g.logs, made |-> {}, sink |-> <<>>, provisioned |-> FALSE]
        ELSE IF ~collOK
        THEN [acq |-> g.acq, fs |-> f,
              err |-> "failed to upload collector: " \o AdbErr,
              trace |-> Append(g.trace, gc),
              logs |-> Append(g.logs, "failed to upload collector: " \o AdbErr \o "\n"),
              made |-> {}, sink |-> <<>>, provisioned |-> FALSE]
        ELSE [acq |-> cf.acq, fs |-> cf.fs, err |-> "",
              trace |-> Append(Append(g.trace, gc) \o cf.trace, lg),
              logs |-> g.logs,
              made |-> cf.made, sink |-> logPath, provisioned |-> TRUE]

\* Initialize on a and filesystem f: cpu and env are the results of the two
\* shell commands, collOK whether GetCollector succeeds (with handle h),
\* perm how many Mkdir calls the system permits
InitializeCall(a, f, cpu, env, collOK, h, perm) ==
    LET g == GetSystemInformation(a, cpu, env)
        gc == Ev("GetCollector", <<>>, collOK, TokStr(g.acq.TmpDir), g.acq.Cpu)
        cf == createFolders([g.acq EXCEPT !.Collector = h], f, perm)
        logPath == Join(cf.acq.StoragePath, "command.log")
        lg == Ev("EnableFileLog", logPath, TRUE, "", "")
    IN  IF g.err # ""
        THEN [acq |-> g.acq, fs |-> f, err |-> g.err, trace |-> g.trace,
              logs |-> g.logs, made |-> {}, sink |-> <<>>, provisioned |-> FALSE]
        ELSE IF ~collOK
        THEN [acq |-> g.acq, fs |-> f,
              err |-> "failed to upload collector: " \o AdbErr,
              trace |-> Append(g.trace, gc),
              logs |-> Append(g.logs, "failed to upload collector: " \o AdbErr \o "\n"),
              made |-> {}, sink |-> <<>>, provisioned |-> FALSE]
        ELSE IF cf.err # ""
        THEN [acq |-> cf.acq, fs |-> cf.fs,
              err |-> "failed to create acquisition folder: " \o cf.err,
              trace |-> Append(g.trace, gc) \o cf.trace,
              logs |-> Append(g.logs, "failed to create acquisition folder: "
                                      \o cf.err \o "\n"),
              made |-> cf.made, sink |-> <<>>, provisioned |-> TRUE]
        ELSE [acq |-> cf.acq, fs |-> cf.fs, err |-> "",
              trace |-> Append(Append(g.trace, gc) \o cf.trace, lg),
              logs |-> g.logs,
              made |-> cf.made, sink |-> logPath, provisioned |-> TRUE]

\* Complete that keeps the Completed timestamp of an earlier call
CompleteCallOnce(a, cs, t) ==
    LET cl == Ev("Clean", <<>>, TRUE, ToString(a.Collector), "")
        ca == Ev("CleanAssets", <<>>, TRUE, "", "")
    IN  [acq |-> IF a.Completed = 0 THEN [a EXCEPT !.Completed = t] ELSE a,
         collectors |-> IF a.Collector # 0 THEN [cs EXCEPT ![a.Collector] = @ + 1]
                        ELSE cs,
         trace |-> IF a.Collector # 0 THEN <<cl, ca>> ELSE <<ca>>]

\* Complete on a at time t; cs counts the Clean calls per collector handle
CompleteCall(a, cs, t) ==
    LET cl == Ev("Clean", <<>>, TRUE, ToString(a.Collector), "")
        ca == Ev("CleanAssets", <<>>, TRUE, "", "")
    IN  [acq |-> [a EXCEPT !.Completed = t],
         collectors |-> IF a.Collector # 0 THEN [cs EXCEPT ![a.Collector] = @ + 1]
                        ELSE cs,
         trace |-> IF a.Collector # 0 THEN <<cl, ca>> ELSE <<ca>>]

----------------------------------------------------------------------------
(* Inputs                                                                  *)

ABIs == {"arm64-v8a", "x86"}

\* what the device prints for env, in the life cycle specification
SampleDumps ==
    { <<"PATH=/bin", "\n">>,
      <<" ", "TMPDIR=", "/foo/bar", "\r", "\n">>,
      <<"TMPDIR=", "/foo/bar", "\n", "TMPDIR=", "/other">> }

\* names and contents that callers of saveOutput use
DataNames == {"a", "z"}

Contents == {"c1", "c2"}

----------------------------------------------------------------------------
(* Actions                                                                 *)

New ==
    /\ ~created
    /\ \E u \in UUIDs, adbOK \in BOOLEAN, stateOK \in BOOLEAN :
          LET r == NewCall(u, now, adbOK, stateOK)
          IN  /\ acq' = r.acq
              /\ created' = r.ok
              /\ trace' = r.trace
              /\ ret' = Ret("New", r.err)
    /\ walk' = NoWalk
    /\ UNCHANGED <<fs, manifest, quota, now, devEnv, collectors, logSink, logFile, staged,
                   runs>>

Initialize ==
    /\ created
    /\ Len(collectors) < MaxHandles
    /\ logSink # <<>> => Len(logFile) < MaxLog
    /\ \E cpuOK \in BOOLEAN, abi \in ABIs, envOK \in BOOLEAN, collOK \in BOOLEAN,
          perm \in 0..3 :
          LET r == InitializeCall(acq, fs, ShellResult(cpuOK, IF cpuOK THEN abi ELSE ""),
                                  ShellResult(envOK, IF envOK THEN devEnv ELSE <<>>),
                                  collOK, Len(collectors) + 1, perm)
          IN  /\ acq' = r.acq
              /\ logFile' = Logged(logSink, logFile, r.logs)
              /\ logSink' = IF r.sink # <<>> THEN r.sink ELSE logSink
              /\ fs' = WithLog(r.fs, logSink', logFile')
              /\ collectors' = IF r.provisioned THEN Append(collectors, 0) ELSE collectors
              /\ staged' = staged \cup r.made
              /\ trace' = r.trace
              /\ ret' = Ret("Initialize", r.err)
    /\ walk' = NoWalk
    /\ runs' = <<>>
    /\ UNCHANGED <<created, manifest, quota, now, devEnv>>

Complete ==
    /\ created
    /\ acq.Collector # 0 => collectors[acq.Collector] < MaxCleans
    /\ LET r == CompleteCall(acq, collectors, now)
       IN  /\ acq' = r.acq
           /\ collectors' = r.collectors
           /\ trace' = r.trace
    /\ ret' = Ret("Complete", "")
    /\ walk' = NoWalk
    /\ UNCHANGED <<created, fs, manifest, quota, now, devEnv, logSink, logFile, staged,
                   runs>>

saveOutputOf(names, outputs) ==
    /\ created
    /\ \E fileName \in names, output \in outputs, wrOK \in BOOLEAN :
          LET r == saveOutputCall(acq, fs, fileName, output, wrOK)
          IN  /\ fs' = r.fs
              /\ trace' = r.trace
              /\ ret' = Ret("saveOutput", r.err)
    /\ walk' = NoWalk
    /\ runs' = <<>>
    /\ UNCHANGED <<acq, created, manifest, quota, now, devEnv, collectors, logSink,
                   logFile, staged>>

saveOutput == saveOutputOf(DataNames, Contents)

RowSet(rows) == {rows[i] : i \in 1..Len(rows)}

HashFiles ==
    /\ created
    /\ logSink # <<>> => Len(logFile) < MaxLog
    /\ logFile' = Logged(logSink, logFile, <<"Generating list of files hashes...\n">>)
    /\ LET r == HashFilesCall(acq, WithLog(fs, logSink, logFile'), quota)
       IN  /\ fs' = r.fs
           /\ manifest' = IF r.wrote THEN r.rows ELSE manifest
           /\ trace' = r.trace
           /\ ret' = Ret("HashFiles", r.err)
           /\ walk' = r.walk
           /\ runs' = IF ~r.wrote THEN runs
                      ELSE IF runs = <<>> THEN <<RowSet(r.rows)>>
                      ELSE <<runs[Len(runs)], RowSet(r.rows)>>
    /\ UNCHANGED <<acq, created, quota, now, devEnv, collectors, logSink, staged>>

StoreInfo ==
    /\ created
    /\ logSink # <<>> => Len(logFile) < MaxLog
    /\ logFile' = Logged(logSink, logFile,
                         <<"Saving details about acquisition and device...\n">>)
    /\ \E wrOK \in BOOLEAN :
          LET r == StoreInfoCall(acq, WithLog(fs, logSink, logFile'), wrOK)
          IN  /\ fs' = r.fs
              /\ trace' = r.trace
              /\ ret' = Ret("StoreInfo", r.err)
    /\ walk' = NoWalk
    /\ runs' = <<>>
    /\ UNCHANGED <<acq, created, manifest, quota, now, devEnv, collectors, logSink, staged>>

\* time passes
Tick ==
    /\ now < MaxTime
    /\ now' = now + 1
    /\ UNCHANGED <<acq, created, fs, manifest, quota, devEnv, collectors, logSink,
                   logFile, staged, trace, ret, walk, runs>>

----------------------------------------------------------------------------
(* The life cycle specification                                            *)

\* the program directory exists; a directory of the session's name may be
\* there already
InitFs ==
    { ExecDir :> Dir } \cup
    { (ExecDir :> Dir) @@ (Join(ExecDir, u) :> Dir) : u \in UUIDs }

Init ==
    /\ acq = ZeroAcq
    /\ created = FALSE
    /\ fs \in InitFs
    /\ manifest = <<>>
    /\ quota = MaxQuota
    /\ now = 1
    /\ devEnv \in SampleDumps
    /\ collectors = <<>>
    /\ logSink = <<>>
    /\ logFile = <<>>
    /\ staged = {}
    /\ trace = <<>>
    /\ ret = Ret("", "")
    /\ walk = NoWalk
    /\ runs = <<>>

Next ==
    \/ New
    \/ Initialize
    \/ Complete
    \/ Tick

Spec == Init /\ [][Next]_vars

----------------------------------------------------------------------------
(* The writers specification: the operations that write beneath           *)
(* StoragePath, called in any order on an Acquisition that New returned    *)
(* and on which Initialize ran at most once, with any outcome, and         *)
(* Complete at most once after it                                          *)

saveOutputOne == saveOutputOf({"a"}, {"c1"})

InitWriters ==
    \E f0 \in InitFs, initialized \in BOOLEAN, cpuOK \in BOOLEAN, envOK \in BOOLEAN,
       collOK \in BOOLEAN, perm \in 0..3, completed \in BOOLEAN :
        LET n == NewCall("u1", 1, TRUE, TRUE)
            env == <<"PATH=/bin", "\n">>
            r == InitializeCall(n.acq, f0,
                                ShellResult(cpuOK, IF cpuOK THEN "arm64-v8a" ELSE ""),
                                ShellResult(envOK, IF envOK THEN env ELSE <<>>),
                                collOK, 1, perm)
            a1 == IF initialized THEN r.acq ELSE n.acq
            cs1 == IF initialized /\ r.provisioned THEN <<0>> ELSE <<>>
            c == CompleteCall(a1, cs1, 2)
        IN  /\ acq = IF completed THEN c.acq ELSE a1
            /\ created = TRUE
            /\ fs = IF initialized THEN WithLog(r.fs, r.sink, <<>>) ELSE f0
            /\ logFile = <<>>
            /\ manifest = <<>>
            /\ quota = MaxQuota
            /\ now = IF completed THEN 2 ELSE 1
            /\ devEnv = env
            /\ collectors = IF completed THEN c.collectors ELSE cs1
            /\ logSink = IF initialized THEN r.sink ELSE <<>>
            /\ staged = IF initialized THEN r.made ELSE {}
            /\ trace = IF completed THEN c.trace
                       ELSE IF initialized THEN r.trace ELSE n.trace
            /\ ret = IF completed THEN Ret("Complete", "")
                     ELSE IF initialized THEN Ret("Initialize", r.err) ELSE Ret("New", "")
            /\ walk = NoWalk
            /\ runs = <<>>

NextWriters ==
    \/ saveOutputOne
    \/ HashFiles
    \/ StoreInfo

SpecWriters == InitWriters /\ [][NextWriters]_vars

----------------------------------------------------------------------------
(* The manifest specification: HashFiles and saveOutput on an initialized   *)
(* Acquisition whose tree may hold entries put there by the collection     *)

\* the state that New and a successful Initialize leave
Initialized ==
    LET n == NewCall("u1", 1, TRUE, TRUE)
    IN  InitializeCall(n.acq, ExecDir :> Dir, ShellResult(TRUE, "arm64-v8a"),
                       ShellResult(TRUE, <<"PATH=/bin", "\n">>), TRUE, 1, 3)

\* what the collection may have left in the tree: a file that cannot be
\* read, or an entry that is neither a directory nor a regular file (a
\* symbolic link, say) and that can or cannot be opened
Found ==
    { [kind |-> "file", content |-> "c1", ok |-> FALSE],
      [kind |-> "other", content |-> "c2", ok |-> TRUE],
      [kind |-> "other", content |-> "", ok |-> FALSE] }

InitTrees ==
    LET base == WithLog(Initialized.fs, Initialized.sink, <<>>)
        sp == Initialized.acq.StoragePath
        withApk == Put(base, Join(Join(sp, "apks"), "a"), File("c1"))
    IN  {base, withApk}
        \cup {Put(t, Join(sp, "d"), e) : t \in {base, withApk}, e \in Found}

InitHash ==
    /\ acq = Initialized.acq
    /\ created = TRUE
    /\ fs \in InitTrees
    /\ manifest = <<>>
    /\ quota \in 0..MaxQuota
    /\ now = 1
    /\ devEnv = <<"PATH=/bin", "\n">>
    /\ collectors = <<0>>
    /\ logSink = Initialized.sink
    /\ logFile = <<>>
    /\ staged = Initialized.made
    /\ trace = Initialized.trace
    /\ ret = Ret("Initialize", "")
    /\ walk = NoWalk
    /\ runs = <<>>

NextHash ==
    \/ saveOutput
    \/ HashFiles

SpecHash == InitHash /\ [][NextHash]_vars

----------------------------------------------------------------------------
(* The probe specification: GetSystemInformation on every dump             *)

ProbeAlphabet == {"TMPDIR=", "/foo/bar", "/other", " ", "\n"}

Dumps == UNION {[1..k -> ProbeAlphabet] : k \in 0..MaxDumpLen}

\* a call of GetSystemInformation on the Acquisition
Probe ==
    /\ created
    /\ \E cpuOK \in BOOLEAN, abi \in ABIs, envOK \in BOOLEAN :
          LET r == GetSystemInformation(acq,
                                        ShellResult(cpuOK, IF cpuOK THEN abi ELSE ""),
                                        ShellResult(envOK, IF envOK THEN devEnv ELSE <<>>))
          IN  /\ acq' = r.acq
              /\ trace' = r.trace
              /\ ret' = Ret("GetSystemInformation", r.err)
              /\ logFile' = Logged(logSink, logFile, r.logs)
              /\ fs' = WithLog(fs, logSink, logFile')
    /\ walk' = NoWalk
    /\ UNCHANGED <<created, manifest, quota, now, devEnv, collectors, logSink,
                   staged, runs>>

InitProbe ==
    /\ acq = NewCall("u1", 1, TRUE, TRUE).acq
    /\ created = TRUE
    /\ fs = (ExecDir :> Dir)
    /\ manifest = <<>>
    /\ quota = MaxQuota
    /\ now = 1
    /\ devEnv \in Dumps
    /\ collectors = <<>>
    /\ logSink = <<>>
    /\ logFile = <<>>
    /\ staged = {}
    /\ trace = NewCall("u1", 1, TRUE, TRUE).trace
    /\ ret = Ret("New", "")
    /\ walk = NoWalk
    /\ runs = <<>>

NextProbe == Probe

SpecProbe == InitProbe /\ [][NextProbe]_vars

----------------------------------------------------------------------------
(* Properties of the manifest (HashFiles)                                  *)

\* the last operation was a HashFiles call that got past os.Create
HashRan == ret.op = "HashFiles" /\ walk.ran

\* the entries beneath StoragePath when that call started
Beneath(f, root) == {p \in DOMAIN f : IsPrefix(root, p) /\ p # root}

RegularAtStart == {p \in Beneath(walk.start, acq.StoragePath) : walk.start[p].kind = "file"}

ManifestPath == Join(acq.StoragePath, "hashes.csv")

RowsOf(p) == {i \in 1..Len(manifest) : manifest[i][1] = p}

\* C1: when the walk of HashFiles ended on an error, HashFiles returns an
\* error to its caller.
C1_WalkErrorIsReturned == (HashRan /\ walk.err # "") => ret.err # ""

\* C2: after a successful run over a tree that held exactly the regular
\* files F, the manifest holds exactly |F| rows, one per file of F, and no
\* row for hashes.csv itself.
C2_ManifestExcludesItself ==
    (/\ HashRan /\ ret.err = "" /\ walk.err = "" /\ walk.flushErr = ""
     /\ \A p \in Beneath(walk.start, acq.StoragePath) :
           walk.start[p].kind \in {"dir", "file"} /\ p # ManifestPath)
    => /\ Len(manifest) = Cardinality(RegularAtStart)
       /\ {manifest[i][1] : i \in 1..Len(manifest)} = RegularAtStart
       /\ RowsOf(ManifestPath) = {}

\* C3: when the walk met no error, every regular file that was beneath
\* StoragePath when HashFiles started has exactly one row in the manifest
\* file when HashFiles returns, with its path and the digest of the content
\* it had when it was visited.
C3_OneRowPerFile ==
    (HashRan /\ ret.err = "" /\ walk.err = "")
    => \A p \in RegularAtStart :
          /\ Cardinality(RowsOf(p)) = 1
          /\ \A i \in RowsOf(p) :
                \E k \in 1..Len(walk.visited) :
                    /\ walk.visited[k][1] = p
                    /\ manifest[i][2] = SHA256(walk.visited[k][2])

\* C3, when also the flush at the end of HashFiles succeeded: then the rows
\* are in the file.
ManifestRowsWhenFlushed == walk.flushErr = "" => C3_OneRowPerFile

\* the entries that are neither directories nor regular files
NonRegularAtStart ==
    {p \in Beneath(walk.start, acq.StoragePath) : walk.start[p].kind \notin {"dir", "file"}}

\* C16: only regular files are recorded: a directory or a non-regular entry
\* that was beneath StoragePath when HashFiles started has no row in the
\* manifest and was not opened for hashing, and no non-regular entry ended
\* the walk with an error.
C16_OnlyRegularFiles ==
    HashRan =>
        /\ \A p \in Beneath(walk.start, acq.StoragePath) \ RegularAtStart :
              /\ RowsOf(p) = {}
              /\ \A k \in 1..Len(walk.visited) : walk.visited[k][1] # p
        /\ \A p \in NonRegularAtStart : walk.err # "open " \o PathStr(p)

\* C9: a second HashFiles run on a tree that nothing else changed since the
\* first run leaves the same set of (path, digest) rows as the first.
C9_RerunSameRows == Len(runs) = 2 => runs[1] = runs[2]

----------------------------------------------------------------------------
(* Properties of the life cycle (Initialize, Complete, createFolders)      *)

\* C4: every provisioned collector handle is released exactly once, by
\* Complete: never twice, and after a Complete call no provisioned handle is
\* left unreleased.
C4_ReleasedExactlyOnce ==
    \A h \in DOMAIN collectors :
        /\ collectors[h] <= 1
        /\ ret.op = "Complete" => collectors[h] = 1

\* the calls of a complete Initialize, in order
InitializeSteps ==
    <<"Shell", "Shell", "GetCollector", "Mkdir", "Mkdir", "Mkdir", "EnableFileLog">>

StagingPaths(a) ==
    LET sp == Join(ExecDir, a.UUID)
    IN  <<sp, Join(sp, "apks"), Join(sp, "logs")>>

\* C5: Initialize makes its calls in the order probe (cpu, env), collector
\* provisioning with the discovered tmpDir and cpu, the three directories,
\* the log sink at StoragePath/command.log; a call is made only after every
\* earlier call succeeded; it returns an error exactly when a call failed,
\* and the log sink is enabled only when the three directories were created.
C5_InitializeOrder ==
    /\ ret.op = "Initialize" =>
          /\ Len(trace) \in 1..Len(InitializeSteps)
          /\ \A i \in 1..Len(trace) : trace[i].call = InitializeSteps[i]
          /\ trace[1].a1 = "getprop ro.product.cpu.abi"
          /\ Len(trace) >= 2 => trace[2].a1 = "env"
          /\ Len(trace) >= 3 =>
                trace[3].a1 = TokStr(acq.TmpDir) /\ trace[3].a2 = acq.Cpu
                /\ acq.TmpDir # <<>> /\ acq.Cpu \in ABIs
          /\ \A i \in 1..(Len(trace) - 1) : trace[i].ok
          /\ ret.err = "" <=> (Len(trace) = Len(InitializeSteps) /\ trace[Len(trace)].ok)
          /\ ret.err # "" <=> ~trace[Len(trace)].ok
          /\ Len(trace) = Len(InitializeSteps) =>
                /\ trace[Len(trace)].path = Join(acq.StoragePath, "command.log")
                /\ logSink = trace[Len(trace)].path
    /\ logSink # <<>> =>
          \A i \in 1..3 : StagingPaths(acq)[i] \in staged

\* Initialize failed while creating the directories, after the probe and the
\* provisioning succeeded, and the log sink stayed off
C5_Witness ==
    /\ ret.op = "Initialize"
    /\ Len(trace) = 5
    /\ ~trace[5].ok
    /\ ret.err # ""
    /\ logSink = <<>>
    /\ acq.Collector # 0

Mkdirs == SelectSeq(trace, LAMBDA e : e.call = "Mkdir")

\* C10: createFolders asks for StoragePath, then apks, then logs; each only
\* after the one before was created; when one fails an error is returned and
\* the directories created before it stay in place.
C10_FoldersInOrder ==
    ret.op = "Initialize" =>
        /\ Len(Mkdirs) <= 3
        /\ \A i \in 1..Len(Mkdirs) : Mkdirs[i].path = StagingPaths(acq)[i]
        /\ \A i \in 1..(Len(Mkdirs) - 1) : Mkdirs[i].ok
        /\ \A i \in 1..Len(Mkdirs) :
              Mkdirs[i].ok => /\ Mkdirs[i].path \in DOMAIN fs
                              /\ fs[Mkdirs[i].path].kind = "dir"
                              /\ Mkdirs[i].path \in staged
        /\ (Len(Mkdirs) >= 1 /\ ~Mkdirs[Len(Mkdirs)].ok) => ret.err # ""

\* the creation of logs failed after StoragePath and apks were created
C10_Witness ==
    /\ ret.op = "Initialize"
    /\ Len(Mkdirs) = 3
    /\ Mkdirs[1].ok /\ Mkdirs[2].ok /\ ~Mkdirs[3].ok
    /\ acq.APKSPath \in DOMAIN fs
    /\ acq.LogsPath \notin DOMAIN fs
    /\ ret.err # ""

\* a step of Initialize: the steps that leave "Initialize" as the last
\* operation are Initialize itself and the passing of time
InitializeStep == ret'.op = "Initialize" /\ now' = now

\* C11: when StoragePath exists already or cannot be created, createFolders
\* asks for it once, fails with an error and creates neither apks nor logs
\* beneath it, and leaves what is there as it is; so an Initialize that comes
\* to the staging step after an earlier Initialize created StoragePath
\* fails at that step.
C11_ExistingStorageFails ==
    [][ LET sp == Join(ExecDir, acq.UUID)
        IN  /\ (/\ InitializeStep
                /\ Len(Mkdirs') >= 1
                /\ sp \in DOMAIN fs \/ ~Mkdirs'[1].ok)
               => /\ Len(Mkdirs') = 1
                  /\ Mkdirs'[1].path = sp /\ ~Mkdirs'[1].ok
                  /\ ret'.err = "failed to create acquisition folder: mkdir "
                                 \o PathStr(sp)
                  /\ \A p \in {Join(sp, "apks"), Join(sp, "logs")} :
                        p \in DOMAIN fs' => p \in DOMAIN fs
                  /\ sp \in DOMAIN fs => fs'[sp] = fs[sp]
                  /\ staged' = staged
            /\ (/\ InitializeStep
                /\ sp \in staged
                /\ \E i \in 1..Len(trace') :
                      trace'[i].call = "GetCollector" /\ trace'[i].ok)
               => /\ ret'.err # ""
                  /\ trace'[Len(trace')].call = "Mkdir"
                  /\ trace'[Len(trace')].path = sp
                  /\ ~trace'[Len(trace')].ok
      ]_vars

\* a second Initialize was provisioned and then failed at the first Mkdir,
\* on the directory that the first Initialize had created
C11_Witness ==
    /\ ret.op = "Initialize"
    /\ Len(collectors) = 2
    /\ Len(Mkdirs) = 1
    /\ ~Mkdirs[1].ok
    /\ Mkdirs[1].path \in staged
    /\ ret.err # ""

\* the error of the external call that failed last, as that call reported it
BareError(e) ==
    IF e.call = "Shell" THEN ShellErr
    ELSE IF e.call = "Mkdir" THEN "mkdir " \o PathStr(e.path)
    ELSE AdbErr

\* C12: the error that Initialize returns for a failed step is the error of
\* that step wrapped with the step's identity, never the bare error of the
\* call that failed.
C12_ErrorNamesStep ==
    (ret.op = "Initialize" /\ ret.err # "")
    => ret.err # BareError(trace[Len(trace)])

\* the handles that were provisioned and not released
Live == {h \in DOMAIN collectors : collectors[h] = 0}

\* C13: at most one provisioned collector is unreleased, and the Collector
\* field, when set, refers to an unreleased one.
C13_SingleLiveCollector ==
    /\ Cardinality(Live) <= 1
    /\ acq.Collector # 0 => acq.Collector \in Live

\* C14: New returns, when adb.New and GetState succeed, an Acquisition with
\* a non-empty UUID and Started at most the current time, and no error; when
\* one of them fails, an error and nil.
C14_NewAllOrNothing ==
    ret.op = "New" =>
        /\ ret.err = "" <=> \A i \in 1..Len(trace) : trace[i].ok
        /\ ret.err = "" =>
              /\ created
              /\ Len(trace) = 2
              /\ acq.UUID # ""
              /\ acq.Started >= 1 /\ acq.Started <= now
        /\ ret.err # "" => ~created /\ acq = ZeroAcq

\* New failed because no device answered the state query
C14_Witness ==
    /\ ret.op = "New"
    /\ Len(trace) = 2
    /\ trace[1].ok /\ ~trace[2].ok
    /\ ret.err # ""
    /\ ~created

\* a step of Complete
CompleteStep == ret'.op = "Complete" /\ now' = now

\* C15: Completed is zero until the first Complete call, since only Complete
\* changes it; every Complete call, a repeated one too, sets it to the
\* current time; and once set it is at least Started.
C15_CompletedTimestamp ==
    /\ [](/\ acq.Completed # 0 => acq.Completed >= acq.Started /\ acq.Started # 0
          /\ ret.op = "Complete" => acq.Completed # 0)
    /\ [][ /\ acq'.Completed # acq.Completed => CompleteStep
           /\ CompleteStep => acq'.Completed = now /\ acq'.Completed >= acq'.Started
         ]_vars

\* a second Complete call, later than Started, has set Completed anew
C15_Witness ==
    /\ ret.op = "Complete"
    /\ acq.Collector # 0
    /\ collectors[acq.Collector] = 2
    /\ acq.Started = 1
    /\ acq.Completed = 2
    /\ now = 2

WriteCalls == {"Create", "WriteFile", "EnableFileLog"}

\* C6: a file beneath StoragePath is written only when StoragePath is a
\* directory that the staging of this Acquisition created.
C6_WritesOnlyIntoStagedStorage ==
    \A i \in 1..Len(trace) :
        trace[i].call \in WriteCalls =>
            /\ acq.StoragePath \in staged
            /\ Parent(trace[i].path) = acq.StoragePath

----------------------------------------------------------------------------
(* Properties of the snapshot (StoreInfo)                                  *)

\* time.Time.UnmarshalJSON: the time that this RFC 3339 text denotes
ParseTime(text) == CHOOSE t \in 0..9 : Rfc3339(t) = text

\* the *adb.Collector that a json value decodes to
CollectorFromJson(val) ==
    IF val.t = "null" THEN 0
    ELSE CHOOSE h \in 1..9 : ToString(h) = val.v

\* the value of field f that json value val decodes to
Decode(f, val) ==
    IF f \in {"Started", "Completed"} THEN ParseTime(val.v)
    ELSE IF f = "Collector" THEN CollectorFromJson(val)
    ELSE val.v

\* json.Unmarshal of the members ms into a: a member sets the field whose
\* tag is its key, a member without such a field is ignored
RECURSIVE UnmarshalInto(_, _)
UnmarshalInto(a, ms) ==
    IF ms = <<>> THEN a
    ELSE LET fields == {i \in 1..Len(Fields) :
                          Tags[Fields[i]] # "-" /\ Tags[Fields[i]] = ms[1][1]}
             f == Fields[CHOOSE i \in fields : TRUE]
         IN  UnmarshalInto(IF fields = {} THEN a
                           ELSE [a EXCEPT ![f] = Decode(f, ms[1][2])],
                           Tail(ms))

JsonUnmarshal(ms) == UnmarshalInto(ZeroAcq, ms)

InfoPath == Join(acq.StoragePath, "acquisition.json")

----------------------------------------------------------------------------
(* Properties of the probe (GetSystemInformation)                          *)

\* the lines of dump d, as the index ranges between line feeds
LinesOf(d) ==
    {r \in (1..(Len(d) + 1)) \X (0..Len(d)) :
        /\ r[2] >= r[1] - 1
        /\ r[1] = 1 \/ d[r[1] - 1] = Newline
        /\ r[2] = Len(d) \/ d[r[2] + 1] = Newline
        /\ \A k \in r[1]..r[2] : d[k] # Newline}

\* line r of d without the white space around it
Stripped(d, r) ==
    LET inked == {k \in r[1]..r[2] : d[k] \notin Space}
    IN  IF inked = {} THEN <<>>
        ELSE SubSeq(d, CHOOSE k \in inked : \A j \in inked : k <= j,
                       CHOOSE k \in inked : \A j \in inked : k >= j)

MatchingLines(d) ==
    {r \in LinesOf(d) : Stripped(d, r) # <<>> /\ Head(Stripped(d, r)) = "TMPDIR="}

ValueOf(d, r) == Tail(Stripped(d, r))

OrFallback(v) == IF v = <<>> THEN Fallback ELSE v

Probed == ret.op = "GetSystemInformation" /\ ret.err = ""

\* C7: with several TMPDIR= lines in the dump, the value of the first one is
\* the resolved tmpDir.
C7_FirstMatchWins ==
    (Probed /\ Cardinality(MatchingLines(devEnv)) >= 2)
    => \E r \in MatchingLines(devEnv) :
          /\ \A o \in MatchingLines(devEnv) : r[1] <= o[1]
          /\ acq.TmpDir = OrFallback(ValueOf(devEnv, r))

\* C8: a dump whose TMPDIR= lines (white space around them removed) all
\* carry the value v resolves to v; a dump without such a line, or with an
\* empty value, resolves to /data/local/tmp.
C8_ResolvedTmpDir ==
    Probed =>
        LET vals == {ValueOf(devEnv, r) : r \in MatchingLines(devEnv)}
        IN  /\ vals = {} => acq.TmpDir = Fallback
            /\ \A v \in vals : vals = {v} => acq.TmpDir = OrFallback(v)

\* the line TMPDIR=/foo/bar with white space around it, after a blank line
C8_Witness ==
    /\ Probed
    /\ devEnv = <<"\n", " ", "TMPDIR=", "/foo/bar", " ">>
    /\ acq.TmpDir = <<"/foo/bar">>

\* C18: after a successful GetSystemInformation TmpDir is not empty,
\* whatever the dump was; and an Initialize on that device that comes to
\* provision the collector calls GetCollector with a TmpDir that is not
\* empty and with the cpu string that its own probe got.
C18_TmpDirNeverEmpty ==
    /\ Probed => acq.TmpDir # <<>> /\ TokStr(acq.TmpDir) # ""
    /\ \A abi \in ABIs, collOK \in BOOLEAN :
          LET r == InitializeCall(acq, fs, ShellResult(TRUE, abi),
                                  ShellResult(TRUE, devEnv), collOK, 1, 3)
          IN  /\ Len(r.trace) >= 3
              /\ r.trace[3].call = "GetCollector"
              /\ r.trace[3].a1 # ""
              /\ r.trace[3].a1 = TokStr(ResolveTmpDir(devEnv))
              /\ r.trace[3].a2 = abi

\* the only TMPDIR= line of the dump has an empty value, and the probe
\* resolved the fallback
C18_Witness ==
    /\ Probed
    /\ devEnv = <<"/other", "\n", "TMPDIR=", " ", "\n">>
    /\ acq.TmpDir = Fallback

\* C19: a GetSystemInformation that fails leaves TmpDir as it was: when the
\* cpu query failed no field changed; when the env query failed no field but
\* Cpu changed, and Cpu is the ABI string just reported.
C19_FailedProbeKeepsTmpDir ==
    [][ (ret'.op = "GetSystemInformation" /\ ret'.err # "")
        => /\ acq'.TmpDir = acq.TmpDir
           /\ Len(trace') = 1 => acq' = acq
           /\ Len(trace') = 2 =>
                 /\ [acq' EXCEPT !.Cpu = acq.Cpu] = acq
                 /\ acq'.Cpu \in ABIs
      ]_vars

\* the env query failed after an earlier probe had resolved TmpDir, and Cpu
\* holds an ABI string
C19_Witness ==
    /\ ret.op = "GetSystemInformation"
    /\ ret.err # ""
    /\ Len(trace) = 2
    /\ acq.TmpDir = <<"/foo/bar">>
    /\ acq.Cpu = "x86"

====
